---- MODULE Spec2Model ----
(***************************************************************************)
(* A model of the in-memory similarity index (PineconeService) and of the  *)
(* route handlers that drive it.                                           *)
(*                                                                         *)
(* JavaScript numbers are modelled as exact rationals <<n, d>> with d > 0, *)
(* kept in lowest terms; <<0, 0>> stands for NaN.  Vectors are drawn from  *)
(* a set whose Euclidean norms are integers, so Math.sqrt and the final    *)
(* division of cosineSimilarity are exact on every input of the model and  *)
(* IEEE rounding does not enter.                                           *)
(***************************************************************************)
EXTENDS Integers, Sequences, FiniteSets, TLC

(***************************************************************************)
(* Bounds and input domains                                                *)
(***************************************************************************)
NumIds == 2

IdPool == <<"d1", "d2", "d3", "d4">>

Ids == {IdPool[i] : i \in 1..NumIds}

Undefined == "undefined"

NaN == <<0, 0>>

\* stored / queried embeddings, of integer norms 1, 5 and 0; the zero vector
\* is also the one of another dimension
Vectors == {<<1, 0>>, <<3, 4>>, <<0>>}

Metas == {[content |-> "A", category |-> "c"],
          [content |-> Undefined, category |-> Undefined]}

TopKs == {<<-1, 1>>, <<0, 1>>, <<1, 1>>, <<5, 1>>, NaN}

Thresholds == {<<-1, 1>>, <<7, 10>>, NaN}

(***************************************************************************)
(* JavaScript numbers                                                      *)
(***************************************************************************)
Abs(x) == IF x < 0 THEN -x ELSE x

RECURSIVE GCD(_, _)
GCD(a, b) == IF b = 0 THEN a ELSE GCD(b, a % b)

\* the number n / d, d # 0, in lowest terms with a positive denominator
Rat(n, d) ==
  LET g == GCD(Abs(n), Abs(d))
      s == IF d < 0 THEN -1 ELSE 1
  IN  <<(s * n) \div g, (s * d) \div g>>

IsNaN(x) == x[2] = 0

\* a >= b on numbers: false as soon as one side is NaN
NumGE(a, b) == ~IsNaN(a) /\ ~IsNaN(b) /\ a[1] * b[2] >= b[1] * a[2]

\* ToIntegerOrInfinity: NaN becomes 0, fractions truncate towards zero
ToInteger(x) ==
  IF IsNaN(x) THEN 0
  ELSE IF x[1] >= 0 THEN x[1] \div x[2] ELSE -((-x[1]) \div x[2])

\* Math.sqrt on the perfect squares the model's vectors produce
Sqrt(n) == CHOOSE r \in 0..n : r * r = n

(***************************************************************************)
(* PineconeService: the index                                              *)
(***************************************************************************)
VARIABLES
  vectors,   \* the Map id -> {embedding, metadata}, in insertion order
  last,      \* the latest call on the index with its arguments and outcome
  cleared,   \* a deleteAll happened and no upsert followed it yet
  latest,    \* per id, the arguments of its latest upsert call since the
             \* latest deleteAll, as a set of [id, embedding, metadata]
  inserted,  \* the ids upserted since the latest deleteAll, in the order of
             \* their first upsert
  again      \* the first of these ids was upserted once more after a second
             \* id had been inserted

ixvars == <<vectors, last, cleared, latest, inserted, again>>

(***************************************************************************)
(* The route handlers (registerRoutes) and MemStorage                      *)
(***************************************************************************)
VARIABLES
  req,        \* per request: its body, the handler's position and locals
  documents,  \* MemStorage.documents: the ids it holds
  queries     \* MemStorage.queries: id -> the query record

rtvars == <<req, documents, queries>>

vars == <<vectors, last, cleared, latest, inserted, again, req, documents, queries>>

NoError == "none"

DimError == "Vectors must have the same length"

RECURSIVE SumProd(_, _, _)
\* the loop of cosineSimilarity: sum of a[i] * b[i] over the first n places
SumProd(a, b, n) == IF n = 0 THEN 0 ELSE SumProd(a, b, n - 1) + a[n] * b[n]

\* mutant: the norms are left squared (Math.sqrt forgotten)
cosineSimilarity_NoSqrt(a, b) ==
  IF Len(a) # Len(b) THEN [threw |-> TRUE, value |-> NaN]
  ELSE LET dotProduct == SumProd(a, b, Len(a))
           normA == SumProd(a, a, Len(a))
           normB == SumProd(b, b, Len(a))
       IN  IF normA = 0 \/ normB = 0
           THEN [threw |-> FALSE, value |-> <<0, 1>>]
           ELSE [threw |-> FALSE, value |-> Rat(dotProduct, normA * normB)]

\* mutant: no length check, a missing component makes the score NaN
cosineSimilarity_NoLengthCheck(a, b) ==
  IF Len(a) # Len(b) THEN [threw |-> FALSE, value |-> NaN]
  ELSE LET dotProduct == SumProd(a, b, Len(a))
           normA == Sqrt(SumProd(a, a, Len(a)))
           normB == Sqrt(SumProd(b, b, Len(a)))
       IN  IF normA = 0 \/ normB = 0
           THEN [threw |-> FALSE, value |-> <<0, 1>>]
           ELSE [threw |-> FALSE, value |-> Rat(dotProduct, normA * normB)]

\* mutant: only the norm of a is tested for 0
cosineSimilarity_ChecksOneNorm(a, b) ==
  IF Len(a) # Len(b) THEN [threw |-> TRUE, value |-> NaN]
  ELSE LET dotProduct == SumProd(a, b, Len(a))
           normA == Sqrt(SumProd(a, a, Len(a)))
           normB == Sqrt(SumProd(b, b, Len(a)))
       IN  IF normA = 0 THEN [threw |-> FALSE, value |-> <<0, 1>>]
           ELSE IF normB = 0 THEN [threw |-> FALSE, value |-> NaN]
           ELSE [threw |-> FALSE, value |-> Rat(dotProduct, normA * normB)]

cosineSimilarity(a, b) ==
  IF Len(a) # Len(b) THEN [threw |-> TRUE, value |-> NaN]
  ELSE LET dotProduct == SumProd(a, b, Len(a))
           normA == Sqrt(SumProd(a, a, Len(a)))
           normB == Sqrt(SumProd(b, b, Len(a)))
       IN  IF normA = 0 \/ normB = 0
           THEN [threw |-> FALSE, value |-> <<0, 1>>]
           ELSE [threw |-> FALSE, value |-> Rat(dotProduct, normA * normB)]

RECURSIVE ScanEntries_FirstMetadata(_, _, _, _)
\* mutant: every pushed result carries the metadata of the first entry
ScanEntries_FirstMetadata(vs, embedding, threshold, n) ==
  IF n = 0 THEN [error |-> NoError, results |-> <<>>]
  ELSE LET r == ScanEntries_FirstMetadata(vs, embedding, threshold, n - 1)
           c == cosineSimilarity(embedding, vs[n].embedding)
       IN  IF r.error # NoError THEN r
           ELSE IF c.threw THEN [error |-> DimError, results |-> <<>>]
           ELSE IF NumGE(c.value, threshold)
                THEN [r EXCEPT !.results =
                        Append(@, [id |-> vs[n].id, score |-> c.value,
                                   metadata |-> vs[1].metadata])]
                ELSE r

RECURSIVE ScanEntries(_, _, _, _)
\* the for loop of query over the first n entries: a throw of
\* cosineSimilarity ends the call, a score under the threshold is skipped
ScanEntries(vs, embedding, threshold, n) ==
  IF n = 0 THEN [error |-> NoError, results |-> <<>>]
  ELSE LET r == ScanEntries(vs, embedding, threshold, n - 1)
           c == cosineSimilarity(embedding, vs[n].embedding)
       IN  IF r.error # NoError THEN r
           ELSE IF c.threw THEN [error |-> DimError, results |-> <<>>]
           ELSE IF NumGE(c.value, threshold)
                THEN [r EXCEPT !.results =
                        Append(@, [id |-> vs[n].id, score |-> c.value,
                                   metadata |-> vs[n].metadata])]
                ELSE r

\* mutant: x goes before the elements of equal score (an unstable sort)
InsertByScore_Unstable(sorted, x) ==
  LET keep == {i \in 1..Len(sorted) :
                 NumGE(sorted[i].score, x.score) /\ sorted[i].score # x.score}
      k == IF keep = {} THEN 0 ELSE CHOOSE i \in keep : \A j \in keep : j <= i
  IN  SubSeq(sorted, 1, k) \o <<x>> \o SubSeq(sorted, k + 1, Len(sorted))

\* x goes behind every element whose score is >= its own: the comparator
\* (a, b) => b.score - a.score under a stable sort
InsertByScore(sorted, x) ==
  LET keep == {i \in 1..Len(sorted) : NumGE(sorted[i].score, x.score)}
      k == IF keep = {} THEN 0 ELSE CHOOSE i \in keep : \A j \in keep : j <= i
  IN  SubSeq(sorted, 1, k) \o <<x>> \o SubSeq(sorted, k + 1, Len(sorted))

RECURSIVE SortByScore(_)
SortByScore(rs) ==
  IF rs = <<>> THEN <<>>
  ELSE InsertByScore(SortByScore(SubSeq(rs, 1, Len(rs) - 1)), rs[Len(rs)])

\* Array.prototype.slice(0, end)
Slice(s, end) ==
  LET rel == ToInteger(end)
      final == IF rel < 0
               THEN (IF Len(s) + rel > 0 THEN Len(s) + rel ELSE 0)
               ELSE (IF rel < Len(s) THEN rel ELSE Len(s))
  IN  SubSeq(s, 1, final)

Null == "null"

\* x || d on strings
OrElse(x, d) == IF x \in {Undefined, Null, ""} THEN d ELSE x

\* the projection to SimilaritySearchResult (timestamp left out: it may be
\* the clock)
ToSearchResult(r) ==
  [id |-> r.id, score |-> r.score,
   text |-> OrElse(r.metadata.content, ""),
   category |-> OrElse(r.metadata.category, "unknown"),
   metadata |-> r.metadata]

\* mutant: the query reads the first stored entry before the scan
Query_ReadsFirstEntry(vs, embedding, topK, threshold) ==
  LET scan == ScanEntries(vs, embedding, threshold, Len(vs))
  IN  IF vs = <<>> THEN [error |-> "TypeError", results |-> <<>>]
      ELSE IF scan.error # NoError THEN scan
      ELSE LET topResults == Slice(SortByScore(scan.results), topK)
           IN  [error |-> NoError,
                results |-> [i \in 1..Len(topResults) |-> ToSearchResult(topResults[i])]]

Query(vs, embedding, topK, threshold) ==
  LET scan == ScanEntries(vs, embedding, threshold, Len(vs))
  IN  IF scan.error # NoError THEN scan
      ELSE LET topResults == Slice(SortByScore(scan.results), topK)
           IN  [error |-> NoError,
                results |-> [i \in 1..Len(topResults) |-> ToSearchResult(topResults[i])]]

HasId(vs, id) == \E i \in 1..Len(vs) : vs[i].id = id

\* mutant: a present key keeps its old metadata (partial update)
MapSet_KeepsMetadata(vs, id, embedding, metadata) ==
  IF HasId(vs, id)
  THEN [i \in 1..Len(vs) |->
          IF vs[i].id = id THEN [vs[i] EXCEPT !.embedding = embedding] ELSE vs[i]]
  ELSE Append(vs, [id |-> id, embedding |-> embedding, metadata |-> metadata])

\* mutant: every call adds an entry (an array push instead of a Map set)
MapSet_AlwaysAppends(vs, id, embedding, metadata) ==
  Append(vs, [id |-> id, embedding |-> embedding, metadata |-> metadata])

\* mutant: a present key is deleted and set again, so it goes last
MapSet_MovesToEnd(vs, id, embedding, metadata) ==
  Append(SelectSeq(vs, LAMBDA v : v.id # id),
         [id |-> id, embedding |-> embedding, metadata |-> metadata])

\* Map.prototype.set: a present key keeps its place, a new key goes last
MapSet(vs, id, embedding, metadata) ==
  LET e == [id |-> id, embedding |-> embedding, metadata |-> metadata]
  IN  IF HasId(vs, id)
      THEN [i \in 1..Len(vs) |-> IF vs[i].id = id THEN e ELSE vs[i]]
      ELSE Append(vs, e)

\* mutant: the clear leaves the Map as it is
MapClear_Noop(vs) == vs

\* Map.prototype.clear
MapClear(vs) == <<>>

getVectorCount == Len(vectors)

Call(op, id, embedding, metadata, topK, threshold, out) ==
  [op |-> op, id |-> id, embedding |-> embedding, metadata |-> metadata,
   topK |-> topK, threshold |-> threshold,
   error |-> out.error, results |-> out.results]

NoMeta == [content |-> Undefined, category |-> Undefined]

NoOut == [error |-> NoError, results |-> <<>>]

upsert(id, embedding, metadata) ==
  /\ vectors' = MapSet(vectors, id, embedding, metadata)
  /\ last' = Call("upsert", id, embedding, metadata, NaN, NaN, NoOut)
  /\ cleared' = FALSE
  /\ latest' = {w \in latest : w.id # id}
                  \cup {[id |-> id, embedding |-> embedding, metadata |-> metadata]}
  /\ inserted' = IF \E i \in 1..Len(inserted) : inserted[i] = id
                 THEN inserted
                 ELSE Append(inserted, id)
  /\ again' = (again \/ (Len(inserted) > 1 /\ inserted[1] = id))

query(embedding, topK, threshold) ==
  /\ last' = Call("query", "none", embedding, NoMeta, topK, threshold,
                  Query(vectors, embedding, topK, threshold))
  /\ UNCHANGED <<vectors, cleared, latest, inserted, again>>

deleteAll ==
  /\ vectors' = MapClear(vectors)
  /\ last' = Call("deleteAll", "none", <<>>, NoMeta, NaN, NaN, NoOut)
  /\ cleared' = TRUE
  /\ latest' = {}
  /\ inserted' = <<>>
  /\ again' = FALSE


(***************************************************************************)
(* Requests.  A handler runs from one await to the next without            *)
(* interruption; at an await any other handler may run.  This is what the  *)
(* Promise-returning IStorage and PineconeService interfaces allow; with   *)
(* MemStorage and the in-memory index the awaits on them are on settled    *)
(* promises, so Node runs fewer interleavings than the model does.  The    *)
(* api log the handlers write before they respond is not part of the       *)
(* model, so the logging and the response are one step.                    *)
(***************************************************************************)
NumReqs == 2

Reqs == 1..NumReqs

Absent == <<>>

\* req.body.topK and req.body.threshold as the client sends them: numbers,
\* or nothing
QueryBodies ==
  {[topK |-> Absent, threshold |-> Absent],
   [topK |-> <<-1, 1>>, threshold |-> Absent],
   [topK |-> Absent, threshold |-> <<2, 1>>],
   [topK |-> Absent, threshold |-> <<0, 1>>],
   [topK |-> Absent, threshold |-> <<-1, 1>>]}

\* what the embedding provider may answer: a vector, or a failure
Failure == [ok |-> FALSE, embedding |-> <<>>]

\* the embeddings the provider returns to the handlers: with the seed's
\* <<3, 4>> they score 1, 3/5 and 0, and <<0>> is of another dimension
Embeddings == {<<1, 0>>, <<0>>}

EmbedReplies == {[ok |-> TRUE, embedding |-> v] : v \in Embeddings} \cup {Failure}

\* a document that an earlier request ingested, and its index entry
SeedId == "d0"

Seed ==
  [id |-> SeedId, embedding |-> <<3, 4>>,
   metadata |-> [content |-> "P", category |-> "c"]]

\* randomUUID: an id that no other call returns
DocIdOf(r) == IdPool[r]

QueryIdOf(r) == <<"q1", "q2", "q3", "q4">>[r]

\* what the handlers catch, by the message they report as details: the
\* schema's parse error and the rejections of the two provider calls
ParseError == "ZodError"

EmbeddingFailure == "EmbeddingFailure"

GenerationFailure == "GenerationFailure"

\* req.body.query, and the text of a completion
QueryText == "q"

Answer == "answer"

\* a + b and a / b on numbers; in the model a division by 0 is 0 / 0
NumAdd(a, b) ==
  IF IsNaN(a) \/ IsNaN(b) THEN NaN
  ELSE Rat(a[1] * b[2] + b[1] * a[2], a[2] * b[2])

NumDiv(a, b) ==
  IF IsNaN(a) \/ IsNaN(b) \/ b[1] = 0 THEN NaN
  ELSE Rat(a[1] * b[2], a[2] * b[1])

RECURSIVE SumScores(_, _)
\* searchResults.reduce((sum, r) => sum + r.score, 0) over the first n results
SumScores(rs, n) ==
  IF n = 0 THEN <<0, 1>> ELSE NumAdd(SumScores(rs, n - 1), rs[n].score)

\* mutant: the sum is divided by the length, whatever the length
avgSimilarity_NoGuard(searchResults) ==
  NumDiv(SumScores(searchResults, Len(searchResults)), <<Len(searchResults), 1>>)

\* chatResponse.avgSimilarity
avgSimilarity(searchResults) ==
  IF Len(searchResults) > 0
  THEN NumDiv(SumScores(searchResults, Len(searchResults)),
              <<Len(searchResults), 1>>)
  ELSE <<0, 1>>

\* a response body: the keys it has and, of their values, those the
\* properties read (details of an error body; the id of document;
\* searchResults and, of chatResponse, response, contextCount and
\* avgSimilarity)
NoResponse ==
  [fields |-> {}, details |-> NoError, id |-> "none", searchResults |-> <<>>,
   response |-> "", contextCount |-> 0, avgSimilarity |-> <<0, 1>>]

ErrorResponse(message) ==
  [NoResponse EXCEPT !.fields = {"error", "details"}, !.details = message]

QueryResponse(searchResults) ==
  [fields |-> {"query", "embedding", "searchResults", "chatResponse"},
   details |-> NoError, id |-> "none", searchResults |-> searchResults,
   response |-> Answer, contextCount |-> Len(searchResults),
   avgSimilarity |-> avgSimilarity(searchResults)]

Marker == "Context from knowledge base:\n"

Separator == "\n\n"

Question == "User question: "

Instructions == "\n\nPlease provide a comprehensive answer ..."

RECURSIVE Join(_, _)
\* context.join(sep), as the sequence of the pieces of the string
Join(ctx, sep) ==
  IF Len(ctx) <= 1 THEN ctx
  ELSE Join(SubSeq(ctx, 1, Len(ctx) - 1), sep) \o <<sep, ctx[Len(ctx)]>>

\* mutant: the context section is written whatever the context
contextText_Always(ctx) ==
  <<Marker>> \o Join(ctx, Separator) \o <<Separator>>

\* generateChatResponse: the context section of the prompt
contextText(ctx) ==
  IF Len(ctx) > 0
  THEN <<Marker>> \o Join(ctx, Separator) \o <<Separator>>
  ELSE <<>>

\* mutant: the context section goes behind the question
prompt_ContextLast(text, ctx) ==
  <<Question, text, Instructions>> \o contextText(ctx)

\* generateChatResponse: the prompt, as the sequence of its pieces
prompt(text, ctx) == contextText(ctx) \o <<Question, text, Instructions>>

\* mutant: results without text are left out of the context
context_SkipsEmpty(searchResults) ==
  SelectSeq([i \in 1..Len(searchResults) |-> searchResults[i].text],
            LAMBDA t : t # "")

\* searchResults.map(result => result.text)
context(searchResults) == [i \in 1..Len(searchResults) |-> searchResults[i].text]

Idle ==
  [kind |-> "none", pc |-> "idle", topK |-> Absent,
   threshold |-> Absent, content |-> "", metadata |-> Undefined,
   id |-> "none", embedding |-> <<>>,
   results |-> <<>>, embedCalls |-> 0, genCalls |-> 0, status |-> 0,
   indexCalls |-> 0, error |-> NoError, context |-> <<>>, prompt |-> <<>>,
   response |-> NoResponse]

\* x || d: undefined, 0 and NaN are falsy
Falsy(x) == x = Absent \/ x[1] = 0

\* parseInt(req.body.topK || "5")
ParseTopK(raw) == IF Falsy(raw) THEN <<5, 1>> ELSE <<ToInteger(raw), 1>>

\* parseFloat(req.body.threshold || "0.7")
ParseThreshold(raw) == IF Falsy(raw) THEN <<7, 10>> ELSE raw

\* the catch block: log, then respond with the error status and the
\* message of what was caught
Fail(r, status, message) ==
  [req EXCEPT ![r].pc = "done", ![r].status = status, ![r].error = message,
              ![r].response = ErrorResponse(message)]

\* req.body.metadata: nothing, or an object with a content key of its own,
\* by its value
BodyMetadatas == {Undefined, "B", Null}

\* the metadata of a document's index entry: content and category of the
\* body, then the keys of body.metadata spread over them (documentId and
\* createdAt are left out: nothing reads them)
DocMetadata(content, metadata) ==
  [content |-> IF metadata = Undefined THEN content ELSE metadata,
   category |-> "c"]

\* POST /api/documents up to the await of generateEmbedding
DocumentsPost_Start(r, valid, content, metadata) ==
  /\ req[r].pc = "idle"
  /\ IF valid
     THEN req' = [req EXCEPT ![r] = [Idle EXCEPT !.kind = "ingest", !.pc = "embedding",
                                       !.content = content, !.metadata = metadata,
                                       !.embedCalls = 1]]
     ELSE req' = [req EXCEPT ![r] = [Idle EXCEPT !.kind = "ingest", !.pc = "done",
                                       !.status = 400, !.error = ParseError,
                                       !.response = ErrorResponse(ParseError)]]
  /\ UNCHANGED <<ixvars, documents, queries>>

\* mutant: the entry is written before the embedding is known to exist
DocumentsPost_Create_UpsertsOnFailure(r, reply) ==
  /\ req[r].kind = "ingest" /\ req[r].pc = "embedding"
  /\ IF reply = Failure
     THEN /\ upsert(DocIdOf(r), <<>>, DocMetadata(req[r].content, req[r].metadata))
          /\ req' = [Fail(r, 400, EmbeddingFailure) EXCEPT ![r].indexCalls = @ + 1]
          /\ UNCHANGED documents
     ELSE /\ documents' = documents \cup {DocIdOf(r)}
          /\ req' = [req EXCEPT ![r].pc = "created", ![r].id = DocIdOf(r),
                                ![r].embedding = reply.embedding]
          /\ UNCHANGED ixvars
  /\ UNCHANGED queries

\* the embedding arrives: createDocument, up to its await
DocumentsPost_Create(r, reply) ==
  /\ req[r].kind = "ingest" /\ req[r].pc = "embedding"
  /\ IF reply = Failure
     THEN /\ req' = Fail(r, 400, EmbeddingFailure)
          /\ UNCHANGED documents
     ELSE /\ documents' = documents \cup {DocIdOf(r)}
          /\ req' = [req EXCEPT ![r].pc = "created", ![r].id = DocIdOf(r),
                                ![r].embedding = reply.embedding]
  /\ UNCHANGED <<ixvars, queries>>

\* mutant: the entry is stored under the documentId of the body, here the
\* one an earlier request used
DocumentsPost_Upsert_UnderDocumentId(r) ==
  /\ req[r].kind = "ingest" /\ req[r].pc = "created"
  /\ upsert(SeedId, req[r].embedding,
            DocMetadata(req[r].content, req[r].metadata))
  /\ req' = [req EXCEPT ![r].pc = "upserted", ![r].embedding = <<>>,
                        ![r].indexCalls = @ + 1]
  /\ UNCHANGED <<documents, queries>>

\* pineconeService.upsert, up to its await
DocumentsPost_Upsert(r) ==
  /\ req[r].kind = "ingest" /\ req[r].pc = "created"
  /\ upsert(req[r].id, req[r].embedding,
            DocMetadata(req[r].content, req[r].metadata))
  /\ req' = [req EXCEPT ![r].pc = "upserted", ![r].embedding = <<>>,
                        ![r].indexCalls = @ + 1]
  /\ UNCHANGED <<documents, queries>>

DocumentsPost_Respond(r) ==
  /\ req[r].kind = "ingest" /\ req[r].pc = "upserted"
  /\ req' = [req EXCEPT ![r].pc = "done", ![r].status = 201,
                        ![r].response = [NoResponse EXCEPT
                                           !.fields = {"document", "embedding"},
                                           !.id = req[r].id]]
  /\ UNCHANGED <<ixvars, documents, queries>>

\* POST /api/query: parse, createQuery, up to its await
QueryPost_Start(r, valid, topK, threshold) ==
  /\ req[r].pc = "idle"
  /\ IF valid
     THEN /\ req' = [req EXCEPT ![r] = [Idle EXCEPT !.kind = "query", !.pc = "created",
                                          !.topK = topK, !.threshold = threshold,
                                          !.id = QueryIdOf(r)]]
          /\ queries' = queries \cup {[id |-> QueryIdOf(r), response |-> Null,
                                       contextDocuments |-> <<>>]}
     ELSE /\ req' = [req EXCEPT ![r] = [Idle EXCEPT !.kind = "query", !.pc = "done",
                                          !.status = 400, !.error = ParseError,
                                          !.response = ErrorResponse(ParseError)]]
          /\ UNCHANGED queries
  /\ UNCHANGED <<ixvars, documents>>

\* the call of generateEmbedding, up to its await
QueryPost_Embed(r) ==
  /\ req[r].kind = "query" /\ req[r].pc = "created"
  /\ req' = [req EXCEPT ![r].pc = "embedding", ![r].embedCalls = @ + 1]
  /\ UNCHANGED <<ixvars, documents, queries>>

\* mutant: a failed embedding is replaced by a default vector and the index
\* is queried with it before the failure is reported
QueryPost_Search_QueriesOnFailure(r, reply) ==
  /\ req[r].kind = "query" /\ req[r].pc = "embedding"
  /\ query(IF reply = Failure THEN <<0>> ELSE reply.embedding,
           ParseTopK(req[r].topK), ParseThreshold(req[r].threshold))
  /\ IF reply = Failure
     THEN req' = [Fail(r, 400, EmbeddingFailure) EXCEPT ![r].indexCalls = @ + 1]
     ELSE IF last'.error # NoError
          THEN req' = [Fail(r, 400, last'.error) EXCEPT ![r].indexCalls = @ + 1]
          ELSE req' = [req EXCEPT ![r].pc = "searched",
                                ![r].results = last'.results,
                                ![r].indexCalls = @ + 1]
  /\ UNCHANGED <<documents, queries>>

\* mutant: an error of the index is swallowed and the request goes on with
\* no result
QueryPost_Search_ContinuesOnError(r, reply) ==
  /\ req[r].kind = "query" /\ req[r].pc = "embedding"
  /\ IF reply = Failure
     THEN /\ req' = Fail(r, 400, EmbeddingFailure)
          /\ UNCHANGED ixvars
     ELSE /\ query(reply.embedding, ParseTopK(req[r].topK),
                   ParseThreshold(req[r].threshold))
          /\ req' = [req EXCEPT ![r].pc = "searched",
                                ![r].results = last'.results,
                                ![r].error = last'.error,
                                ![r].indexCalls = @ + 1]
  /\ UNCHANGED <<documents, queries>>

\* the embedding arrives: topK and threshold are parsed and the index is
\* queried, up to the await of pineconeService.query
QueryPost_Search(r, reply) ==
  /\ req[r].kind = "query" /\ req[r].pc = "embedding"
  /\ IF reply = Failure
     THEN /\ req' = Fail(r, 400, EmbeddingFailure)
          /\ UNCHANGED ixvars
     ELSE /\ query(reply.embedding, ParseTopK(req[r].topK),
                   ParseThreshold(req[r].threshold))
          /\ IF last'.error # NoError
             THEN req' = [Fail(r, 400, last'.error) EXCEPT ![r].indexCalls = @ + 1]
             ELSE req' = [req EXCEPT ![r].pc = "searched",
                                   ![r].results = last'.results,
                                   ![r].indexCalls = @ + 1]
  /\ UNCHANGED <<documents, queries>>

\* the call of generateChatResponse, up to its await
QueryPost_Generate(r) ==
  /\ req[r].kind = "query" /\ req[r].pc = "searched"
  /\ req' = [req EXCEPT ![r].pc = "generating", ![r].genCalls = @ + 1,
                        ![r].context = context(req[r].results),
                        ![r].prompt = prompt(QueryText, context(req[r].results))]
  /\ UNCHANGED <<ixvars, documents, queries>>

\* mutant: a failed completion is answered with the results found so far
QueryPost_Update_PartialResult(r, ok) ==
  /\ req[r].kind = "query" /\ req[r].pc = "generating"
  /\ IF ok
     THEN /\ req' = [req EXCEPT ![r].pc = "updated"]
          /\ queries' = {IF q.id = req[r].id
                         THEN [q EXCEPT !.response = Answer,
                                        !.contextDocuments = req[r].results]
                         ELSE q : q \in queries}
     ELSE /\ req' = [Fail(r, 400, GenerationFailure) EXCEPT
                       ![r].response.fields = @ \cup {"searchResults"},
                       ![r].response.searchResults = req[r].results]
          /\ UNCHANGED queries
  /\ UNCHANGED <<ixvars, documents>>

\* mutant: a failed completion is asked for once more
QueryPost_Update_Retries(r, ok) ==
  /\ req[r].kind = "query" /\ req[r].pc = "generating"
  /\ IF ok
     THEN /\ req' = [req EXCEPT ![r].pc = "updated"]
          /\ queries' = {IF q.id = req[r].id
                         THEN [q EXCEPT !.response = Answer,
                                        !.contextDocuments = req[r].results]
                         ELSE q : q \in queries}
     ELSE /\ req' = IF req[r].genCalls < 2
                    THEN [req EXCEPT ![r].pc = "searched"]
                    ELSE Fail(r, 400, GenerationFailure)
          /\ UNCHANGED queries
  /\ UNCHANGED <<ixvars, documents>>

\* mutant: a failed completion is written to the query record as well
QueryPost_Update_RecordsFailure(r, ok) ==
  /\ req[r].kind = "query" /\ req[r].pc = "generating"
  /\ queries' = {IF q.id = req[r].id
                 THEN [q EXCEPT !.response = IF ok THEN Answer ELSE "",
                                !.contextDocuments = req[r].results]
                 ELSE q : q \in queries}
  /\ req' = IF ok THEN [req EXCEPT ![r].pc = "updated"]
            ELSE Fail(r, 400, GenerationFailure)
  /\ UNCHANGED <<ixvars, documents>>

\* the completion arrives: updateQuery, up to its await
QueryPost_Update(r, ok) ==
  /\ req[r].kind = "query" /\ req[r].pc = "generating"
  /\ IF ok
     THEN /\ req' = [req EXCEPT ![r].pc = "updated"]
          /\ queries' = {IF q.id = req[r].id
                         THEN [q EXCEPT !.response = Answer,
                                        !.contextDocuments = req[r].results]
                         ELSE q : q \in queries}
     ELSE /\ req' = Fail(r, 400, GenerationFailure)
          /\ UNCHANGED queries
  /\ UNCHANGED <<ixvars, documents>>

\* mutant: the results are kept in one variable that the requests share, so
\* the response shows those of the latest call on the index
QueryPost_Respond_SharedResults(r) ==
  /\ req[r].kind = "query" /\ req[r].pc = "updated"
  /\ req' = [req EXCEPT ![r].pc = "done", ![r].status = 200,
                        ![r].response = QueryResponse(last.results)]
  /\ UNCHANGED <<ixvars, documents, queries>>

QueryPost_Respond(r) ==
  /\ req[r].kind = "query" /\ req[r].pc = "updated"
  /\ req' = [req EXCEPT ![r].pc = "done", ![r].status = 200,
                        ![r].response = QueryResponse(req[r].results)]
  /\ UNCHANGED <<ixvars, documents, queries>>

\* DELETE /api/documents: clearDocuments, up to its await
DocumentsDelete_Start(r) ==
  /\ req[r].pc = "idle"
  /\ documents' = {}
  /\ req' = [req EXCEPT ![r] = [Idle EXCEPT !.kind = "clear", !.pc = "clearedDocs"]]
  /\ UNCHANGED <<ixvars, queries>>

\* pineconeService.deleteAll, up to its await
DocumentsDelete_Index(r) ==
  /\ req[r].kind = "clear" /\ req[r].pc = "clearedDocs"
  /\ deleteAll
  /\ req' = [req EXCEPT ![r].pc = "clearedIndex", ![r].indexCalls = @ + 1]
  /\ UNCHANGED <<documents, queries>>

DocumentsDelete_Respond(r) ==
  /\ req[r].kind = "clear" /\ req[r].pc = "clearedIndex"
  /\ req' = [req EXCEPT ![r].pc = "done", ![r].status = 200,
                        ![r].response = [NoResponse EXCEPT !.fields = {"message"}]]
  /\ UNCHANGED <<ixvars, documents, queries>>

RtNext ==
  \E r \in Reqs :
    \/ \E valid \in BOOLEAN, m \in BodyMetadatas : DocumentsPost_Start(r, valid, "A", m)
    \/ \E reply \in EmbedReplies : DocumentsPost_Create(r, reply)
    \/ DocumentsPost_Upsert(r)
    \/ DocumentsPost_Respond(r)
    \/ \E valid \in BOOLEAN, b \in QueryBodies :
         QueryPost_Start(r, valid, b.topK, b.threshold)
    \/ QueryPost_Embed(r)
    \/ \E reply \in EmbedReplies : QueryPost_Search(r, reply)
    \/ QueryPost_Generate(r)
    \/ \E ok \in BOOLEAN : QueryPost_Update(r, ok)
    \/ QueryPost_Respond(r)
    \/ DocumentsDelete_Start(r)
    \/ DocumentsDelete_Index(r)
    \/ DocumentsDelete_Respond(r)

Init ==
  /\ vectors = <<>>
  /\ last = Call("new", "none", <<>>, NoMeta, NaN, NaN, NoOut)
  /\ cleared = FALSE
  /\ latest = {}
  /\ inserted = <<>>
  /\ again = FALSE
  /\ req = [r \in Reqs |-> Idle]
  /\ documents = {}
  /\ queries = {}

\* the server as started, or as one earlier ingest request left it when it
\* had completed
InitRoutes ==
  /\ vectors \in {<<>>, <<Seed>>}
  /\ last = IF vectors = <<>>
            THEN Call("new", "none", <<>>, NoMeta, NaN, NaN, NoOut)
            ELSE Call("upsert", SeedId, Seed.embedding, Seed.metadata, NaN, NaN, NoOut)
  /\ cleared = FALSE
  /\ latest = {vectors[i] : i \in 1..Len(vectors)}
  /\ inserted = [i \in 1..Len(vectors) |-> vectors[i].id]
  /\ again = FALSE
  /\ req = [r \in Reqs |-> Idle]
  /\ documents = {vectors[i].id : i \in 1..Len(vectors)}
  /\ queries = {}

\* calls on the index by a caller that holds the service
IxUpsert(id, embedding, metadata) ==
  upsert(id, embedding, metadata) /\ UNCHANGED rtvars

IxQuery(embedding, topK, threshold) ==
  query(embedding, topK, threshold) /\ UNCHANGED rtvars

IxDeleteAll == deleteAll /\ UNCHANGED rtvars

IxNext ==
  \/ \E id \in Ids, e \in Vectors, m \in Metas : IxUpsert(id, e, m)
  \/ \E e \in Vectors, k \in TopKs, t \in Thresholds : IxQuery(e, k, t)
  \/ IxDeleteAll

\* vectors of one, two and three components with integer norms, the
\* all-zero vector of each length among them
SimVectors ==
  {<<0>>, <<2>>, <<-1>>,
   <<0, 0>>, <<1, 0>>, <<0, -1>>, <<3, 4>>, <<-4, 3>>, <<-3, -4>>, <<6, 8>>,
   <<0, 0, 0>>, <<1, 2, 2>>, <<2, 3, 6>>, <<-2, 1, 2>>}

\* one call of cosineSimilarity(a, b) that has not returned yet
InitSim ==
  /\ vectors = <<>>
  /\ last \in {[op |-> "cosineSimilarity", a |-> a, b |-> b, returned |-> FALSE,
                 threw |-> FALSE, value |-> NaN] : a, b \in SimVectors}
  /\ cleared = FALSE
  /\ latest = {}
  /\ inserted = <<>>
  /\ again = FALSE
  /\ req = [r \in Reqs |-> Idle]
  /\ documents = {}
  /\ queries = {}

\* the call runs: it throws or returns its value
SimReturn ==
  /\ ~last.returned
  /\ LET c == cosineSimilarity(last.a, last.b)
     IN  last' = [last EXCEPT !.returned = TRUE, !.threw = c.threw,
                              !.value = c.value]
  /\ UNCHANGED <<vectors, cleared, latest, inserted, again, rtvars>>

\* cosineSimilarity alone, on every pair of SimVectors
SpecSim == InitSim /\ [][SimReturn]_vars

\* the index alone, called directly
Spec == Init /\ [][IxNext]_vars

\* the server: the index is called by the route handlers only
SpecRoutes == InitRoutes /\ [][RtNext]_vars

(***************************************************************************)
(* Properties of the index (specification Spec)                            *)
(***************************************************************************)
One == <<1, 1>>

MinusOne == <<-1, 1>>

IsQuery == last.op = "query"

QueryOk == IsQuery /\ last.error = NoError

Pos(vs, id) == CHOOSE i \in 1..Len(vs) : vs[i].id = id

SameLength(vs, v) == \A i \in 1..Len(vs) : Len(vs[i].embedding) = Len(v)

NonZero(v) == \E i \in 1..Len(v) : v[i] # 0

ScoresOne(vs, v, i) == cosineSimilarity(v, vs[i].embedding).value = One

\* a query(v, 1, -1.0) step taken right after an upsert of v
UpsertThenQuery ==
  /\ last.op = "upsert"
  /\ last'.op = "query"
  /\ last'.embedding = last.embedding
  /\ last'.topK = One
  /\ last'.threshold = MinusOne

\* C1 as claimed: upsert(id, v, a) immediately followed by query(v, 1, -1.0)
\* returns exactly one result, with the id of the upsert and the score 1.0,
\* in every index state and for every id, v and a.
C1_AsClaimed ==
  [][UpsertThenQuery =>
       /\ last'.error = NoError
       /\ Len(last'.results) = 1
       /\ last'.results[1].id = last.id
       /\ last'.results[1].score = One]_ixvars

\* C1 as amended: when v is not the zero vector and every stored vector has
\* the length of v, upsert(id, v, a) immediately followed by
\* query(v, 1, -1.0) returns exactly one result, with score 1.0, an entry
\* whose vector points in the direction of v; its id is the id of the upsert
\* whenever no other entry has a vector in the direction of v.
C1_UpsertThenQuery ==
  [][(UpsertThenQuery /\ NonZero(last.embedding)
        /\ SameLength(vectors, last.embedding)) =>
       /\ last'.error = NoError
       /\ Len(last'.results) = 1
       /\ last'.results[1].score = One
       /\ LET r == last'.results[1]
              p == Pos(vectors, last.id)
          IN  /\ HasId(vectors, r.id)
              /\ ScoresOne(vectors, last.embedding, Pos(vectors, r.id))
              /\ ((\A i \in (1..Len(vectors)) \ {p} :
                     ~ScoresOne(vectors, last.embedding, i))
                    => r.id = last.id)]_ixvars

\* C1 witness: a query(v, 1, -1.0) answered with the entry inserted last,
\* holding v = <<3, 4>>, with score 1.0 while another entry is stored
C1_Witness ==
  /\ QueryOk
  /\ last.topK = One /\ last.threshold = MinusOne
  /\ last.embedding = <<3, 4>>
  /\ Len(vectors) = 2
  /\ vectors[2].embedding = last.embedding
  /\ Len(last.results) = 1
  /\ last.results[1].id = vectors[2].id
  /\ last.results[1].score = One

Max(a, b) == IF a >= b THEN a ELSE b

\* C2 as claimed: a query(v, k, t) that returns, returns at most k elements
\* (none for a negative k) and no element whose score is below t.
C2_AsClaimed ==
  (QueryOk /\ ~IsNaN(last.topK)) =>
    /\ Len(last.results) <= Max(ToInteger(last.topK), 0)
    /\ \A i \in 1..Len(last.results) :
         NumGE(last.results[i].score, last.threshold)

\* C3: the returned sequence is sorted by non-increasing score, and of two
\* returned entries of equal score the one inserted earlier comes first.
C3_SortedStable ==
  QueryOk =>
    \A i, j \in 1..Len(last.results) :
      i < j =>
        /\ NumGE(last.results[i].score, last.results[j].score)
        /\ (last.results[i].score = last.results[j].score
              => Pos(vectors, last.results[i].id) < Pos(vectors, last.results[j].id))

\* C3 witness: a result of two entries that tie at the score 1.0
C3_Witness ==
  /\ QueryOk
  /\ Len(last.results) = 2
  /\ last.results[1].score = last.results[2].score
  /\ last.results[1].score = One

\* C4: after deleteAll, getVectorCount is 0 and every query before the next
\* upsert returns an empty sequence, whatever its arguments.
C4_ClearEmpties ==
  cleared =>
    /\ getVectorCount = 0
    /\ (IsQuery => last.error = NoError /\ last.results = <<>>)

\* C4 witness: a query answered after a deleteAll and before any upsert
C4_Witness == cleared /\ IsQuery /\ last.threshold = MinusOne /\ last.topK = <<5, 1>>

MismatchIn(vs, v) == \E i \in 1..Len(vs) : Len(vs[i].embedding) # Len(v)

\* C5: a query fails with the dimension-mismatch error whenever one stored
\* vector has another length than the query vector, wherever that entry is
\* and whatever topK and threshold are; it returns no result and leaves the
\* index as it was.
C5_DimensionMismatch ==
  [][(last'.op = "query" /\ MismatchIn(vectors, last'.embedding)) =>
       /\ last'.error = DimError
       /\ last'.results = <<>>
       /\ vectors' = vectors]_ixvars

\* C5 witness: a failed query whose first stored entry has the query's
\* length, the mismatch being in the second, with a threshold it would miss
C5_Witness ==
  /\ IsQuery /\ last.error = DimError
  /\ Len(vectors) = 2
  /\ Len(vectors[1].embedding) = Len(last.embedding)
  /\ Len(vectors[2].embedding) # Len(last.embedding)
  /\ last.topK = One

\* C6: on an index without entries a query returns an empty sequence and no
\* error, for every query vector, topK and threshold.
C6_EmptyIndex ==
  (IsQuery /\ Len(vectors) = 0) => (last.error = NoError /\ last.results = <<>>)

\* C6 witness: a query on the index as constructed, never cleared, with a
\* topK and a threshold that are not numbers
C6_Witness ==
  /\ IsQuery /\ Len(vectors) = 0 /\ ~cleared
  /\ IsNaN(last.topK) /\ IsNaN(last.threshold)

\* C7: upsert on an id of the index replaces that entry's vector and
\* attributes in the same step, keeps the count and every other entry; on
\* a new id it adds exactly one entry.
C7_UpsertFrame ==
  [][last'.op = "upsert" =>
       LET e == [id |-> last'.id, embedding |-> last'.embedding,
                 metadata |-> last'.metadata]
       IN  IF HasId(vectors, e.id)
           THEN /\ Len(vectors') = Len(vectors)
                /\ \A i \in 1..Len(vectors) :
                     vectors'[i] = IF vectors[i].id = e.id THEN e ELSE vectors[i]
           ELSE vectors' = Append(vectors, e)]_ixvars

\* C7 witness: the id of the latest upsert is the first of two entries, so
\* the upsert replaced an entry
C7_Witness ==
  /\ last.op = "upsert"
  /\ Len(vectors) = 2
  /\ vectors[1].id = last.id
  /\ vectors[1].embedding = last.embedding
  /\ vectors[1].metadata = last.metadata

upserted == {w.id : w \in latest}

Occurrences(rs, id) == Cardinality({i \in 1..Len(rs) : rs[i].id = id})

\* C8: whatever the order in which upsert calls took effect, a query with
\* threshold -1 and topK at least the entry count, over vectors of the
\* query's dimension, returns each upserted id exactly once and no other.
C8_AllUpsertedReturned ==
  (IsQuery /\ last.threshold = MinusOne /\ ~IsNaN(last.topK)
     /\ ToInteger(last.topK) >= Len(vectors)
     /\ SameLength(vectors, last.embedding)) =>
    /\ last.error = NoError
    /\ \A id \in upserted : Occurrences(last.results, id) = 1
    /\ \A i \in 1..Len(last.results) : last.results[i].id \in upserted

\* C8 witness: every id was upserted, the second before the first, and a
\* query returned them all
C8_Witness ==
  /\ QueryOk /\ last.threshold = MinusOne /\ last.topK = <<5, 1>>
  /\ upserted = Ids
  /\ Len(last.results) = NumIds
  /\ vectors[1].id = IdPool[2]

\* C9: a query computes its result from one state of the index: every
\* returned entry carries the vector (through its score) and the attributes
\* of one and the same upsert call, the latest for its id, and no entry of
\* before the latest deleteAll; every entry the latest calls left that
\* reaches the threshold is returned when topK admits them all.
C9_ConsistentSnapshot ==
  QueryOk =>
    /\ \A i \in 1..Len(last.results) :
         \E w \in latest :
           /\ w.id = last.results[i].id
           /\ w.metadata = last.results[i].metadata
           /\ last.results[i].score = cosineSimilarity(last.embedding, w.embedding).value
    /\ (~IsNaN(last.topK) /\ ToInteger(last.topK) >= Cardinality(latest)) =>
         \A w \in latest :
           NumGE(cosineSimilarity(last.embedding, w.embedding).value, last.threshold)
             => Occurrences(last.results, w.id) = 1

\* C9 witness: a query answered with the one stored entry, its score 3/5 and its
\* attributes those of a single upsert call
C9_Witness ==
  /\ QueryOk
  /\ Len(last.results) = 1
  /\ Len(vectors) = 1
  /\ last.results[1].score = <<3, 5>>
  /\ last.results[1].metadata.content = "A"

(***************************************************************************)
(* Properties of the request handlers (specification SpecRoutes)           *)
(***************************************************************************)
\* the request is invalid by its topK (<= 0) or its scoreThreshold
\* (outside [-1, 1])
InvalidRequest(r) ==
  \/ (req[r].topK # Absent /\ NumGE(<<0, 1>>, req[r].topK))
  \/ (req[r].threshold # Absent
        /\ ~(NumGE(req[r].threshold, MinusOne) /\ NumGE(One, req[r].threshold)))

\* C10 as claimed: for a query request with topK <= 0 or a scoreThreshold
\* outside [-1, 1], neither the embedding provider nor the generation
\* provider is ever called.
C10_AsClaimed ==
  \A r \in Reqs :
    (req[r].kind = "query" /\ InvalidRequest(r)) =>
      (req[r].embedCalls = 0 /\ req[r].genCalls = 0)

\* an error body: the keys error and details, and neither results nor text
ErrorBody(r) ==
  /\ req[r].response.fields = {"error", "details"}
  /\ req[r].response.searchResults = <<>>
  /\ req[r].response.response = ""

\* C11: when the embedding provider fails in a query request, the request
\* ends there: the index is not queried, the generation provider is not
\* called, and the response is a 400 error body without searchResults or
\* chatResponse.
C11_EmbeddingFailureAborts ==
  \A r \in Reqs :
    (req[r].kind = "query" /\ req[r].error = EmbeddingFailure) =>
      /\ req[r].pc = "done" /\ req[r].status = 400
      /\ req[r].embedCalls = 1
      /\ req[r].indexCalls = 0
      /\ req[r].genCalls = 0
      /\ req[r].results = <<>> /\ req[r].prompt = <<>>
      /\ ErrorBody(r)
      /\ req[r].response.details = EmbeddingFailure

\* C11 witness: a query request whose embedding failed while the index held
\* an entry it could have returned
C11_Witness ==
  \E r \in Reqs :
    /\ req[r].kind = "query" /\ req[r].error = EmbeddingFailure
    /\ req[r].pc = "done"
    /\ req[r].threshold = MinusOne
    /\ Len(vectors) = 1
    /\ last.op = "upsert"

\* C12: when the generation provider fails in a query request, the response
\* is a 400 error body that carries neither the retrieved results nor any
\* generated text; no step of a query request changes the index.
C12_GenerationFailureAborts ==
  [][\A r \in Reqs :
       (req'[r].kind = "query" /\ req'[r] # req[r]) =>
         /\ vectors' = vectors
         /\ req'[r].error = GenerationFailure =>
              /\ req[r].pc = "generating"
              /\ req'[r].pc = "done" /\ req'[r].status = 400
              /\ req'[r].response.fields = {"error", "details"}
              /\ req'[r].response.searchResults = <<>>
              /\ req'[r].response.response = ""
              /\ req'[r].response.details = GenerationFailure]_vars

\* C12 witness: a request whose completion failed after its search had
\* returned two results, of which the error body shows none
C12_Witness ==
  \E r \in Reqs :
    /\ req[r].kind = "query" /\ req[r].error = GenerationFailure
    /\ Len(req[r].results) = 2
    /\ ErrorBody(r)
    /\ Len(vectors) = 2

\* C13: an ingest request whose embedding failed never calls upsert and none
\* of its steps changes the index or the document store; the upsert of an
\* ingest request is called with the embedding the provider returned to it.
C13_NoUpsertWithoutEmbedding ==
  [][\A r \in Reqs :
       (req'[r].kind = "ingest" /\ req'[r] # req[r]) =>
         /\ req'[r].error = EmbeddingFailure =>
              /\ req'[r].indexCalls = 0
              /\ req'[r].pc = "done" /\ req'[r].status = 400
              /\ vectors' = vectors /\ documents' = documents
         /\ IF req'[r].indexCalls > req[r].indexCalls
            THEN /\ req[r].pc = "created" /\ req[r].embedCalls = 1
                 /\ req[r].error = NoError
                 /\ req[r].embedding \in Embeddings
                 /\ last'.op = "upsert"
                 /\ last'.id = req[r].id
                 /\ last'.embedding = req[r].embedding
            ELSE vectors' = vectors]_vars

\* C13 witness: an ingest request whose embedding failed, the index holding
\* the one entry it held before
C13_Witness ==
  \E r \in Reqs :
    /\ req[r].kind = "ingest" /\ req[r].error = EmbeddingFailure
    /\ req[r].pc = "done" /\ req[r].indexCalls = 0
    /\ vectors = <<Seed>>
    /\ documents = {SeedId}
    /\ \A o \in Reqs \ {r} : req[o].pc = "idle"

\* the index entry of a request's document
EntryOf(r) == vectors[Pos(vectors, req[r].id)]

RECURSIVE DenominatorProduct(_, _)
\* a common denominator of the first n scores
DenominatorProduct(rs, n) ==
  IF n = 0 THEN 1 ELSE DenominatorProduct(rs, n - 1) * rs[n].score[2]

RECURSIVE ScoreTotal(_, _, _)
\* the sum of the first n scores, in units of 1 / d
ScoreTotal(rs, n, d) ==
  IF n = 0 THEN 0
  ELSE ScoreTotal(rs, n - 1, d) + rs[n].score[1] * (d \div rs[n].score[2])

\* C15: in every successful query response contextCount is the number of
\* searchResults and avgSimilarity is a number, never NaN: 0 when there is no
\* result, else the sum of the results' scores divided by their number.
C15_AvgSimilarity ==
  \A r \in Reqs :
    (req[r].kind = "query" /\ req[r].status = 200) =>
      LET rs == req[r].response.searchResults
          avg == req[r].response.avgSimilarity
          d == DenominatorProduct(rs, Len(rs))
      IN  /\ "chatResponse" \in req[r].response.fields
          /\ req[r].response.contextCount = Len(rs)
          /\ ~IsNaN(avg)
          /\ IF rs = <<>> THEN avg = <<0, 1>>
             ELSE avg[1] * d * Len(rs) = ScoreTotal(rs, Len(rs), d) * avg[2]

\* C15 witness: a response with the two results of scores 1 and 3/5, whose
\* avgSimilarity is 4/5
C15_Witness ==
  \E r \in Reqs :
    /\ req[r].kind = "query" /\ req[r].status = 200
    /\ Len(req[r].response.searchResults) = 2
    /\ req[r].response.searchResults[1].score = One
    /\ req[r].response.searchResults[2].score = <<3, 5>>
    /\ req[r].response.avgSimilarity = <<4, 5>>

\* the search of request r returned, with no result
EmptyRetrieval(r) ==
  /\ req[r].kind = "query"
  /\ req[r].indexCalls = 1 /\ req[r].error # DimError
  /\ req[r].results = <<>>

\* what follows an empty retrieval: one call of the generation provider, with
\* a prompt that has no context section, before the request ends, and then
\* either the result with no retrieved entry or the provider's failure
AfterEmptyRetrieval(r) ==
  /\ req[r].pc = "searched" => req[r].genCalls = 0
  /\ req[r].pc # "searched" =>
       /\ req[r].genCalls = 1
       /\ req[r].prompt = <<Question, QueryText, Instructions>>
  /\ req[r].pc = "done" =>
       \/ /\ req[r].status = 200
          /\ "searchResults" \in req[r].response.fields
          /\ "chatResponse" \in req[r].response.fields
          /\ req[r].response.searchResults = <<>>
          /\ req[r].response.avgSimilarity = <<0, 1>>
          /\ req[r].response.contextCount = 0
       \/ /\ req[r].status = 400
          /\ req[r].error = GenerationFailure

\* C16: a query request whose embedding arrives while the index is empty gets
\* an empty search result and no error from the index; after an empty search
\* result the generation provider is called exactly once, with a prompt
\* without context section, and when it answers the response is a result
\* with searchResults = [], avgSimilarity = 0 and contextCount = 0.
C16_EmptyIndexStillGenerates ==
  [][\A r \in Reqs :
       /\ (/\ req[r].kind = "query" /\ req[r].pc = "embedding"
           /\ req'[r] # req[r]
           /\ req'[r].error # EmbeddingFailure
           /\ vectors = <<>>) =>
            /\ req'[r].pc = "searched"
            /\ req'[r].error = NoError
            /\ EmptyRetrieval(r)'
       /\ EmptyRetrieval(r)' => AfterEmptyRetrieval(r)']_vars

\* C16 witness: a request answered 200 with no result by a server whose index
\* never held an entry
C16_Witness ==
  \E r \in Reqs :
    /\ req[r].kind = "query" /\ req[r].status = 200
    /\ req[r].response.searchResults = <<>>
    /\ req[r].genCalls = 1
    /\ vectors = <<>> /\ documents = {} /\ ~cleared
    /\ \A o \in Reqs \ {r} : req[o].kind # "ingest"

\* C17: no request calls a provider twice: a query request calls the
\* embedding provider at most once and the generation provider at most once,
\* an ingest request the embedding provider at most once and the generation
\* provider never, and a request that a provider failed is over.
C17_NoRetry ==
  \A r \in Reqs :
    /\ req[r].embedCalls <= 1
    /\ req[r].genCalls <= 1
    /\ req[r].kind = "ingest" => req[r].genCalls = 0
    /\ req[r].error \in {EmbeddingFailure, GenerationFailure} => req[r].pc = "done"

\* C17 witness: a query request that the generation provider failed and an
\* ingest request that the embedding provider failed, each after one call
C17_Witness ==
  \E r, o \in Reqs :
    /\ req[r].kind = "query" /\ req[r].error = GenerationFailure
    /\ req[r].embedCalls = 1 /\ req[r].genCalls = 1
    /\ req[o].kind = "ingest" /\ req[o].error = EmbeddingFailure
    /\ req[o].embedCalls = 1

(***************************************************************************)
(* Properties of cosineSimilarity (specification SpecSim)                  *)
(***************************************************************************)
AllZero(v) == \A i \in 1..Len(v) : v[i] = 0

\* C18: for vectors a and b of equal length cosineSimilarity(a, b) returns
\* what cosineSimilarity(b, a) returns, and it returns 0 when a or b is
\* all-zero, also when both are.
C18_SymmetricZero ==
  (last.returned /\ Len(last.a) = Len(last.b)) =>
    /\ ~last.threw
    /\ [threw |-> last.threw, value |-> last.value] = cosineSimilarity(last.b, last.a)
    /\ (AllZero(last.a) \/ AllZero(last.b)) => last.value = <<0, 1>>

\* C18 witness: the returned similarity of an all-zero vector as the second
\* argument and a vector that is not all-zero as the first
C18_Witness ==
  /\ last.returned
  /\ last.a = <<3, 4>> /\ last.b = <<0, 0>>
  /\ last.value = <<0, 1>>

(***************************************************************************)
(* Properties of the prompt and of the order of a query request's steps    *)
(* (specification SpecRoutes)                                              *)
(***************************************************************************)
\* the text of each result, in the order of the results
Snippets(rs) == [i \in 1..Len(rs) |-> rs[i].text]

\* C19: the prompt handed to the generation provider has no "Context from
\* knowledge base" marker when there is no context snippet; otherwise it
\* starts with the marker, which every snippet follows in the order of the
\* input, and the user question comes behind the last snippet.
C19_PromptContext ==
  \A r \in Reqs :
    (req[r].kind = "query" /\ req[r].genCalls >= 1) =>
      LET ctx == Snippets(req[r].results)
          p == req[r].prompt
          n == Len(ctx)
      IN  /\ \E q \in 1..Len(p) - 1 :
               /\ p[q] = Question /\ p[q + 1] = QueryText
               /\ q > 2 * n
          /\ IF n = 0
             THEN \A i \in 1..Len(p) : p[i] # Marker
             ELSE /\ p[1] = Marker
                  /\ \A i \in 1..n : p[2 * i] = ctx[i]
                  /\ \A i \in 2..Len(p) : p[i] # Marker

\* C19 witness: a prompt with the two snippets "A" and "P", in the order of
\* the results
C19_Witness ==
  \E r \in Reqs :
    /\ req[r].kind = "query" /\ req[r].genCalls = 1
    /\ Len(req[r].results) = 2
    /\ req[r].results[1].text = "A" /\ req[r].results[2].text = "P"
    /\ req[r].prompt = <<Marker, "A", Separator, "P", Separator,
                         Question, QueryText, Instructions>>

\* C20: the steps of a query request come in the order embedding, index
\* query, prompt and generation, result: the embedding provider is called
\* before any other call, the index is queried once, with the embedding the
\* provider returned, the generation provider is called only once the index
\* query has returned without error, with the prompt of its results, and the
\* result is sent only after the generation provider has answered.
C20_StepOrder ==
  [][\A r \in Reqs :
       req'[r].kind = "query" =>
         /\ req'[r].embedCalls > req[r].embedCalls =>
              /\ req[r].indexCalls = 0 /\ req[r].genCalls = 0
         /\ req'[r].indexCalls > req[r].indexCalls =>
              /\ req[r].pc = "embedding"
              /\ req[r].embedCalls = 1 /\ req[r].indexCalls = 0
              /\ req[r].genCalls = 0
              /\ req'[r].error # EmbeddingFailure
              /\ last'.op = "query" /\ last'.embedding \in Embeddings
         /\ req'[r].genCalls > req[r].genCalls =>
              /\ req[r].pc = "searched"
              /\ req[r].embedCalls = 1 /\ req[r].indexCalls = 1
              /\ req[r].error = NoError
              /\ req'[r].prompt = contextText(Snippets(req[r].results))
                                    \o <<Question, QueryText, Instructions>>
         /\ (req'[r].status = 200 /\ req[r].status # 200) =>
              /\ req[r].pc = "updated"
              /\ req[r].embedCalls = 1 /\ req[r].indexCalls = 1
              /\ req[r].genCalls = 1
              /\ req'[r].response.searchResults = req[r].results
              /\ req'[r].response.response = Answer]_vars

\* C20 witness: a request answered 200 after one call of each kind, its
\* index query having returned a result
C20_Witness ==
  \E r \in Reqs :
    /\ req[r].kind = "query" /\ req[r].status = 200
    /\ req[r].embedCalls = 1 /\ req[r].indexCalls = 1 /\ req[r].genCalls = 1
    /\ Len(req[r].response.searchResults) = 1
    /\ req[r].response.searchResults[1].score = <<3, 5>>

(***************************************************************************)
(* Properties of what a query request retrieves and of what the requests   *)
(* leave in the stores (specification SpecRoutes)                          *)
(***************************************************************************)
\* the topK and the scoreThreshold of request r: those of its body, or the
\* defaults 5 and 0.7 when the body has none
RequestTopK(r) == IF req[r].topK = Absent THEN <<5, 1>> ELSE req[r].topK

RequestThreshold(r) ==
  IF req[r].threshold = Absent THEN <<7, 10>> ELSE req[r].threshold

\* the entries of vs whose score against v reaches t
Admitted(vs, v, t) ==
  {i \in 1..Len(vs) : NumGE(cosineSimilarity(v, vs[i].embedding).value, t)}

\* C21 as claimed: the search of a request with a topK above 0 and a
\* scoreThreshold in [-1, 1] returns at most topK results, each of a score
\* that reaches the request's scoreThreshold, and every entry the
\* scoreThreshold admits when topK admits them all (a request with
\* scoreThreshold 0 retrieves the entries that score between 0 and 0.7).
C21_AsClaimed ==
  [][\A r \in Reqs :
       (/\ req[r].kind = "query" /\ ~InvalidRequest(r)
        /\ req'[r].indexCalls > req[r].indexCalls
        /\ req'[r].error = NoError) =>
         LET rs == req'[r].results
             adm == Admitted(vectors, last'.embedding, RequestThreshold(r))
         IN  /\ Len(rs) <= ToInteger(RequestTopK(r))
             /\ \A i \in 1..Len(rs) : NumGE(rs[i].score, RequestThreshold(r))
             /\ Cardinality(adm) <= ToInteger(RequestTopK(r)) =>
                  \A i \in adm : \E j \in 1..Len(rs) : rs[j].id = vectors[i].id]_vars

\* C22: the context handed to the prompt has one snippet per retrieved
\* result, in the order of the results: the content attribute of the result,
\* or the empty string when the result has none.
C22_ContextSnippets ==
  \A r \in Reqs :
    (req[r].kind = "query" /\ req[r].genCalls >= 1) =>
      /\ Len(req[r].context) = Len(req[r].results)
      /\ \A i \in 1..Len(req[r].results) :
           LET content == req[r].results[i].metadata.content
           IN  req[r].context[i] = IF content \in {Undefined, Null} THEN "" ELSE content
      /\ req[r].prompt = contextText(req[r].context)
                           \o <<Question, QueryText, Instructions>>

\* C22 witness: two results, the first without content, and a context of the
\* empty string and the content of the second
C22_Witness ==
  \E r \in Reqs :
    /\ req[r].kind = "query" /\ req[r].genCalls = 1
    /\ Len(req[r].results) = 2
    /\ req[r].results[1].metadata.content = Null
    /\ req[r].context = <<"", "P">>

\* C23: the id of an ingest request is new when createDocument returns it:
\* no index entry, no stored document and no other request has it; its
\* upsert adds one entry under that id and leaves every other entry as it
\* was; the id the request returns is that id, and no two ingest requests
\* return the same.
C23_FreshIds ==
  [][\A r \in Reqs :
       req'[r].kind = "ingest" =>
         /\ (req[r].id = "none" /\ req'[r].id # "none") =>
              /\ ~HasId(vectors, req'[r].id)
              /\ req'[r].id \notin documents
              /\ \A o \in Reqs \ {r} : req[o].id # req'[r].id
         /\ req'[r].indexCalls > req[r].indexCalls =>
              /\ last'.id = req[r].id
              /\ ~HasId(vectors, req[r].id)
              /\ Len(vectors') = Len(vectors) + 1
              /\ \A i \in 1..Len(vectors) : vectors'[i] = vectors[i]
              /\ vectors'[Len(vectors')].id = req[r].id
         /\ req'[r].status = 201 =>
              /\ req'[r].response.id = req'[r].id
              /\ req'[r].id # SeedId
              /\ \A o \in Reqs \ {r} :
                   req'[o].status = 201 => req'[o].response.id # req'[r].response.id]_vars

\* C23 witness: two ingest requests answered 201 while the index holds the
\* seed and their two entries, the second request's upsert having come first
C23_Witness ==
  /\ \A r \in Reqs : req[r].kind = "ingest" /\ req[r].status = 201
  /\ Len(vectors) = NumReqs + 1
  /\ vectors[1].id = SeedId
  /\ vectors[2].id = req[2].response.id

\* the query records other than that of request r
OtherRecords(qs, r) == {q \in qs : q.id # QueryIdOf(r)}

\* C24: query requests do not interfere.  A step of one request changes the
\* locals of no other request and no query record but its own; the results
\* of a request are those of the index as it is at its search step for the
\* embedding returned to it and for the topK and threshold of its own body;
\* the record it updates and the result it returns carry these results.
C24_Independent ==
  [][\A r \in Reqs :
       req'[r].kind = "query" =>
         /\ req'[r] = req[r] =>
              {q \in queries' : q.id = QueryIdOf(r)} = {q \in queries : q.id = QueryIdOf(r)}
         /\ req'[r] # req[r] =>
              /\ \A o \in Reqs \ {r} : req'[o] = req[o]
              /\ OtherRecords(queries', r) = OtherRecords(queries, r)
              /\ (req'[r].pc = "searched" /\ req[r].pc # "searched") =>
                   /\ last'.topK = ParseTopK(req[r].topK)
                   /\ last'.threshold = ParseThreshold(req[r].threshold)
                   /\ req'[r].results =
                        Query(vectors, last'.embedding, last'.topK, last'.threshold).results
              /\ req[r].pc \in {"searched", "generating", "updated"} =>
                   req'[r].results = req[r].results
              /\ queries' # queries =>
                   \/ queries' = queries \cup
                        {[id |-> QueryIdOf(r), response |-> Null, contextDocuments |-> <<>>]}
                   \/ /\ req[r].pc = "generating"
                      /\ [id |-> QueryIdOf(r), response |-> Answer,
                          contextDocuments |-> req[r].results] \in queries'
              /\ req'[r].status = 200 =>
                   req'[r].response.searchResults = req[r].results]_vars

\* C24 witness: two query requests with different thresholds answered 200,
\* one with a result and one with none, each with its own record
C24_Witness ==
  /\ \A r \in Reqs : req[r].kind = "query" /\ req[r].status = 200
  /\ Len(req[1].response.searchResults) = 1
  /\ req[2].response.searchResults = <<>>
  /\ req[1].threshold # req[2].threshold
  /\ \A r \in Reqs :
       [id |-> QueryIdOf(r), response |-> Answer,
        contextDocuments |-> req[r].response.searchResults] \in queries

\* an ingest or a clear request that has started and not yet responded
InFlight(r) == req[r].kind \in {"ingest", "clear"} /\ req[r].pc # "done"

CreatedRecord(id) == [id |-> id, response |-> Null, contextDocuments |-> <<>>]

\* C26: a query record is updated only by the request that created it, once
\* its embedding, its index search and its generation have all succeeded,
\* and then with the answer and the results of that request; the record of a
\* request that failed at one of these steps stays in the store as it was
\* created, with response null; there is one record per id.
C26_RecordUpdatedOnSuccess ==
  /\ \A q \in queries :
       /\ \A p \in queries : p.id = q.id => p = q
       /\ q # CreatedRecord(q.id) =>
            \E r \in Reqs :
              /\ req[r].kind = "query" /\ req[r].id = q.id
              /\ req[r].pc \in {"updated", "done"}
              /\ req[r].error = NoError
              /\ req[r].embedCalls = 1 /\ req[r].indexCalls = 1
              /\ req[r].genCalls = 1
              /\ q.response = Answer
              /\ q.contextDocuments = req[r].results
  /\ \A r \in Reqs :
       (req[r].kind = "query"
          /\ req[r].error \in {EmbeddingFailure, DimError, GenerationFailure}) =>
         CreatedRecord(req[r].id) \in queries

\* C26 witness: an updated record beside the record, still as created, of a
\* request whose generation failed after its search had returned a result
C26_Witness ==
  \E r, o \in Reqs :
    /\ req[r].kind = "query" /\ req[r].error = GenerationFailure
    /\ req[r].results # <<>>
    /\ CreatedRecord(req[r].id) \in queries
    /\ req[o].kind = "query" /\ req[o].status = 200
    /\ [id |-> req[o].id, response |-> Answer,
        contextDocuments |-> req[o].results] \in queries

\* the place of an id among the ids upserted since the latest deleteAll, in
\* the order of their first upsert
FirstInsertion(id) == CHOOSE i \in 1..Len(inserted) : inserted[i] = id

\* C27: in the results of a query, of two entries with equal score the one
\* whose id was first upserted earlier, since the latest clear, comes first,
\* whether or not either was upserted again in between.
C27_ReupsertKeepsPlace ==
  (IsQuery /\ last.error = NoError) =>
    \A i, j \in 1..Len(last.results) :
      (i < j /\ last.results[i].score = last.results[j].score) =>
        /\ \E n \in 1..Len(inserted) : inserted[n] = last.results[i].id
        /\ \E n \in 1..Len(inserted) : inserted[n] = last.results[j].id
        /\ FirstInsertion(last.results[i].id) < FirstInsertion(last.results[j].id)

\* C27 witness: a query returned two entries of equal score, and the first
\* of them was upserted again after the second had been inserted
C27_Witness ==
  /\ IsQuery /\ last.error = NoError
  /\ Len(last.results) = 2
  /\ last.results[1].score = last.results[2].score
  /\ inserted = <<last.results[1].id, last.results[2].id>>
  /\ again

====
